---------------------------- MODULE Spec2Model ----------------------------
(***************************************************************************)
(* A model of the PDF -> notes pipeline:                                   *)
(*   convert_pdf_to_docx.py  line classification, coordinate level         *)
(*                           inference, per-page assembly, rendering and   *)
(*                           postprocess_formatting;                       *)
(*   word_reindent.py        apply_template_bullets (the remapper);        *)
(*   app.py                  the run block that chains both.               *)
(*                                                                         *)
(* Text is a sequence of one-character strings.  Only ASCII can be written *)
(* in a string here, so "*" stands for the non-ASCII glyphs of             *)
(* BULLET_CHARS; "-" is the ASCII hyphen that BULLET_CHARS really holds.   *)
(* Horizontal offsets and centroids are exact rationals (the code uses     *)
(* floats); lengths are EMU integers as in python-docx.                    *)
(***************************************************************************)
EXTENDS Integers, Sequences, FiniteSets, TLC

VARIABLES
    \* ---- coordinate level inference on one list of offsets
    lv_pc,          \* "input" | "done"
    bullet_xs,      \* the bullet glyph offsets, in reading order
    centers,        \* cluster centres, each [s |-> sum, n |-> count]
    bullet_levels,  \* the level list returned for bullet_xs
    \* ---- a document on disk and the formatting passes over it
    src_doc,        \* the paragraphs of the document as first written
    prev_doc,       \* the paragraphs before the last postprocess_formatting
    doc,            \* the paragraphs of the document at docx_path
    post_runs,      \* how many times postprocess_formatting has run on it
    template,       \* the template: [styles, nums]
    out,            \* <<>>, or <<the document apply_template_bullets saved>>
    \* ---- convert: the page loop
    cv_pc,          \* "pages" | "done"
    force_all_lines_bullets,
    lines_left,     \* layout lines the rest of the PDF may still hold
    page_index,     \* pages processed so far
    page,           \* the layout lines of the last page processed
    lines,          \* its normalized lines
    title,          \* its title (<<>> for None)
    nodes,          \* what it added to the document, as nodes
    \* ---- one run of the whole transform
    entry,          \* how the run was started
    run_pc,         \* the stage the run has reached
    inter_file,     \* the file at convert's out_docx_path: <<>> or <<paragraphs>>
    delivered       \* what the app handed to the download button

levelVars == <<lv_pc, bullet_xs, centers, bullet_levels>>

formatVars == <<src_doc, prev_doc, doc, post_runs, template, out>>

convertVars ==
    <<cv_pc, force_all_lines_bullets, lines_left, page_index, page, lines, title, nodes>>

runVars == <<entry, run_pc, inter_file, delivered>>

vars == <<levelVars, formatVars, convertVars, runVars>>

-----------------------------------------------------------------------------
(* Bounds of the model.                                                    *)

MaxBullets == 5

\* Paragraphs in a document handed to the formatting passes.
MaxParas == 4

\* Runs of postprocess_formatting on one document.
MaxRuns == 2

\* Layout lines in a PDF, all pages together.
MaxLines == 3

\* Offsets (points) a bullet glyph can sit at.
Offsets == {0, 3, 7, 11, 16}

-----------------------------------------------------------------------------
(* Generic helpers.                                                        *)

Abs(a) == IF a < 0 THEN 0 - a ELSE a

Min(a, b) == IF a < b THEN a ELSE b

Max(a, b) == IF a < b THEN b ELSE a

SeqsUpTo(S, n) == UNION {[1..k -> S] : k \in 0..n}

RECURSIVE SumSeq(_)
SumSeq(s) == IF s = <<>> THEN 0 ELSE Head(s) + SumSeq(Tail(s))

\* sorted(xs) on numbers: a stable insertion sort (Python's sort is stable).
RECURSIVE InsertInt(_, _)
InsertInt(x, s) ==
    IF s = <<>> THEN <<x>>
    ELSE IF Head(s) <= x THEN <<Head(s)>> \o InsertInt(x, Tail(s))
    ELSE <<x>> \o s

RECURSIVE sorted(_)
sorted(xs) ==
    IF xs = <<>> THEN <<>>
    ELSE InsertInt(xs[Len(xs)], sorted(SubSeq(xs, 1, Len(xs) - 1)))

-----------------------------------------------------------------------------
(* Coordinate level inference: _cluster_x_positions and                    *)
(* _levels_for_bullets_on_page.                                            *)

\* The default tolerance of _cluster_x_positions, also passed explicitly.
tol == 4

\* The loop of _cluster_x_positions over xs_sorted[1:]: a value within tol of
\* the last member of the last cluster joins it, any other opens a cluster.
RECURSIVE ClusterLoop(_, _, _)
ClusterLoop(clusters, rest, t) ==
    IF rest = <<>> THEN clusters
    ELSE LET x == Head(rest)
             last == clusters[Len(clusters)]
         IN  IF Abs(x - last[Len(last)]) <= t
             THEN ClusterLoop([clusters EXCEPT ![Len(clusters)] = Append(last, x)],
                              Tail(rest), t)
             ELSE ClusterLoop(Append(clusters, <<x>>), Tail(rest), t)

\* sum(c) / len(c), kept as the exact fraction s / n.
Center(c) == [s |-> SumSeq(c), n |-> Len(c)]

CenterLeq(a, b) == a.s * b.n <= b.s * a.n

\* centers.sort()
RECURSIVE InsertCenter(_, _)
InsertCenter(c, s) ==
    IF s = <<>> THEN <<c>>
    ELSE IF CenterLeq(Head(s), c) THEN <<Head(s)>> \o InsertCenter(c, Tail(s))
    ELSE <<c>> \o s

RECURSIVE SortCenters(_)
SortCenters(cs) ==
    IF cs = <<>> THEN <<>>
    ELSE InsertCenter(cs[Len(cs)], SortCenters(SubSeq(cs, 1, Len(cs) - 1)))

\* The value list handed to the clustering loop: sorted(xs).
xs_sorted_unsorted(xs) == xs

xs_sorted(xs) == sorted(xs)

\* The clusters list built by _cluster_x_positions (xs is not empty).
ClustersOf(xs, t) ==
    LET s == xs_sorted(xs)
    IN  ClusterLoop(<<<<s[1]>>>>, Tail(s), t)

_cluster_x_positions(xs, t) ==
    IF xs = <<>> THEN <<>>
    ELSE LET clusters == ClustersOf(xs, t)
         IN  SortCenters([i \in 1..Len(clusters) |-> Center(clusters[i])])

\* abs(x - centers[i]) < abs(x - centers[j]), on the exact fractions.
Nearer(x, ci, cj) == Abs(x * ci.n - ci.s) * cj.n < Abs(x * cj.n - cj.s) * ci.n

\* min(range(len(centers)), key=...): the first index of a nearest centre
\* (0-based, as in the code).
NearestIdx(x, cs) ==
    CHOOSE i \in 0..(Len(cs) - 1) :
        /\ \A j \in 0..(Len(cs) - 1) : ~Nearer(x, cs[j + 1], cs[i + 1])
        /\ \A j \in 0..(i - 1) : Nearer(x, cs[i + 1], cs[j + 1])

\* max(0, min(idx, 2))
ClampLevel(idx) == Max(0, Min(idx, 2))

_levels_for_bullets_on_page(xs) ==
    IF xs = <<>> THEN <<>>
    ELSE LET cs == _cluster_x_positions(xs, tol)
         IN  [k \in 1..Len(xs) |-> ClampLevel(NearestIdx(xs[k], cs))]

-----------------------------------------------------------------------------
(* Text: a line is a sequence of one-character strings.                    *)

UpperSeq == <<"A","B","C","D","E","F","G","H","I","J","K","L","M",
              "N","O","P","Q","R","S","T","U","V","W","X","Y","Z">>

LowerSeq == <<"a","b","c","d","e","f","g","h","i","j","k","l","m",
              "n","o","p","q","r","s","t","u","v","w","x","y","z">>

Digits == {"0","1","2","3","4","5","6","7","8","9"}

\* Whitespace as str.strip() and the regex class \s see it.
WS == {" "}

UpperSet == {UpperSeq[i] : i \in 1..Len(UpperSeq)}

LowerSet == {LowerSeq[i] : i \in 1..Len(LowerSeq)}

IsUpperCh(c) == c \in UpperSet

IsLowerCh(c) == c \in LowerSet

\* str.lower() on one character
LowerCh(c) ==
    IF IsUpperCh(c)
    THEN LowerSeq[CHOOSE i \in 1..Len(UpperSeq) : UpperSeq[i] = c]
    ELSE c

\* str.lower()
lower(s) == [i \in 1..Len(s) |-> LowerCh(s[i])]

RECURSIVE lstrip(_)
lstrip(s) ==
    IF s = <<>> THEN <<>>
    ELSE IF Head(s) \in WS THEN lstrip(Tail(s)) ELSE s

RECURSIVE rstrip(_)
rstrip(s) ==
    IF s = <<>> THEN <<>>
    ELSE IF s[Len(s)] \in WS THEN rstrip(SubSeq(s, 1, Len(s) - 1)) ELSE s

\* str.strip()
strip(s) == rstrip(lstrip(s))

\* re.sub(r"\s+", " ", s): every run of whitespace becomes one space.
RECURSIVE CollapseWs(_)
CollapseWs(s) ==
    IF s = <<>> THEN <<>>
    ELSE IF Head(s) \in WS
         THEN <<" ">> \o CollapseWs(lstrip(s))
         ELSE <<Head(s)>> \o CollapseWs(Tail(s))

\* str.startswith
StartsWith(s, pre) == Len(s) >= Len(pre) /\ SubSeq(s, 1, Len(pre)) = pre

\* "*" stands for every non-ASCII glyph of the list; "-" is in the list.
BULLET_CHARS == {"*", "-"}

\* BULLET_RE.match(line): optional whitespace, one glyph, at least one
\* whitespace, then content that ends in a non-space.
BULLET_RE_match(line) ==
    LET l == lstrip(line)
    IN  /\ Len(l) >= 2
        /\ l[1] \in BULLET_CHARS
        /\ l[2] \in WS
        /\ strip(Tail(l)) # <<>>

\* BULLET_RE's group 1: \s+ is greedy, so the group starts at the first
\* non-space after the glyph and ends at the last non-space of the line.
BULLET_RE_group1(line) == strip(Tail(lstrip(line)))

\* bullet_text: None is modelled by the empty text, which a match never yields.
bullet_text(line) ==
    IF ~BULLET_RE_match(line) THEN <<>> ELSE strip(BULLET_RE_group1(line))

FurtherReading ==
    <<"f","u","r","t","h","e","r"," ","r","e","a","d","i","n","g">>

is_footer_noise(line) ==
    LET l == strip(line)
    IN  \/ l = <<>>
        \/ \A i \in 1..Len(l) : l[i] \in Digits
        \/ \E i \in 1..Len(l) : l[i] = "@"
        \/ StartsWith(lower(l), FurtherReading)

\* A character of the class [A-Za-z'] of looks_like_heading's findall.
IsWordCh(c) == IsUpperCh(c) \/ IsLowerCh(c) \/ c = "'"

\* The positions where a word of re.findall(r"[A-Za-z']+", l) starts.
WordStarts(l) ==
    {i \in 1..Len(l) : IsWordCh(l[i]) /\ (i = 1 \/ ~IsWordCh(l[i - 1]))}

\* str.isupper(): at least one cased character and no lower-case one.
isupper(l) ==
    /\ \E i \in 1..Len(l) : IsUpperCh(l[i])
    /\ \A i \in 1..Len(l) : ~IsLowerCh(l[i])

looks_like_heading(line) ==
    LET l == strip(line)
        words == WordStarts(l)
        n_title == Cardinality({i \in words : IsUpperCh(l[i])})
    IN  IF l = <<>> THEN FALSE
        ELSE IF BULLET_RE_match(l) THEN FALSE
        ELSE IF Len(l) > 80 THEN FALSE
        ELSE IF l[Len(l)] = ":" THEN TRUE
        ELSE IF words = {} THEN FALSE
        ELSE IF isupper(l) /\ Len(l) <= 60 THEN TRUE
        \* title_like >= 0.7, with title_like = n_title / max(1, len(words))
        ELSE IF 10 * n_title >= 7 * Max(1, Cardinality(words)) /\ Len(l) <= 70
             THEN TRUE
        ELSE FALSE

\* normalize_lines on the lines of text.splitlines()
RECURSIVE normalize_lines(_)
normalize_lines(raw) ==
    IF raw = <<>> THEN <<>>
    ELSE LET ln == CollapseWs(strip(Head(raw)))
         IN  (IF ln # <<>> /\ ~is_footer_noise(ln) THEN <<ln>> ELSE <<>>)
                 \o normalize_lines(Tail(raw))

_is_bullet_start_text(t) ==
    IF t = <<>> THEN FALSE
    ELSE LET u == lstrip(t) IN u # <<>> /\ u[1] \in BULLET_CHARS

-----------------------------------------------------------------------------
(* Paragraphs of a document.  A paragraph is                               *)
(*   [id, style, runs, left, first]                                        *)
(* id: the identity of the XML element; runs: a sequence of [text, bold]   *)
(* (bold FALSE covers both None and False, which the code never tells      *)
(* apart); left / first: the left and first-line indent in EMU, <<>> for   *)
(* None and <<v>> for a set value.  Fonts are not modelled.                *)

\* docx.shared.Pt(pts) as a Length in EMU, and Length.pt back (as the
\* fraction emu / 12700).
Pt(pts) == pts * 12700

\* The style names that str.startswith("List") accepts.
ListStyleNames == {"List Bullet", "List Bullet 2", "List Bullet 3", "List Paragraph"}

StyleStartsWithList(name) == name \in ListStyleNames

RECURSIVE Concat(_)
Concat(ss) == IF ss = <<>> THEN <<>> ELSE Head(ss) \o Concat(Tail(ss))

\* Paragraph.text
ptext(p) == Concat([i \in 1..Len(p.runs) |-> p.runs[i].text])

\* add_bold_line
BoldLine(id, text) ==
    [id |-> id, style |-> "Normal",
     runs |-> <<[text |-> text, bold |-> TRUE]>>, left |-> <<>>, first |-> <<>>]

StyleForLevel(level) ==
    IF level = 0 THEN "List Bullet"
    ELSE IF level = 1 THEN "List Bullet 2" ELSE "List Bullet 3"

\* add_bullet
BulletPara(id, text, level) ==
    [id |-> id, style |-> StyleForLevel(Max(0, Min(level, 2))),
     runs |-> <<[text |-> text, bold |-> FALSE]>>, left |-> <<>>, first |-> <<>>]

\* doc.add_paragraph(""): no run is added for an empty text
BlankPara(id) ==
    [id |-> id, style |-> "Normal", runs |-> <<>>, left |-> <<>>, first |-> <<>>]

-----------------------------------------------------------------------------
(* postprocess_formatting                                                  *)

is_heading(p) ==
    IF strip(ptext(p)) = <<>> THEN FALSE
    ELSE IF StyleStartsWithList(p.style) THEN FALSE
    ELSE /\ \A i \in 1..Len(p.runs) :
               strip(p.runs[i].text) # <<>> => p.runs[i].bold
         /\ \E i \in 1..Len(p.runs) : strip(p.runs[i].text) # <<>>

is_bullet(p) == StyleStartsWithList(p.style)

bullet_level_from_style_name(name) ==
    IF name = "List Bullet" THEN 0
    ELSE IF name = "List Bullet 2" THEN 1
    ELSE IF name = "List Bullet 3" THEN 2
    ELSE 0

HANG == 18

STEP == 18

BASE_LEFT == 18

\* The left indent apply_level_indent gives a (clamped) level.
LevelLeft_nobase(level) == Pt(STEP * level)

LevelLeft(level) == Pt(BASE_LEFT + STEP * level)

apply_level_indent(p, level) ==
    LET lv == Max(0, Min(level, 2))
    IN  [p EXCEPT !.left = <<LevelLeft(lv)>>, !.first = <<Pt(0 - HANG)>>]

\* Step (1): whether the heading at index i has a bullet after it and
\* before the next heading.
RECURSIVE has_bullet_from(_, _)
has_bullet_from(paras, j) ==
    IF j > Len(paras) THEN FALSE
    ELSE IF is_heading(paras[j]) THEN FALSE
    ELSE IF is_bullet(paras[j]) THEN TRUE
    ELSE has_bullet_from(paras, j + 1)

to_delete_idxs_all(paras) ==
    {i \in 1..Len(paras) : is_heading(paras[i])}

to_delete_idxs(paras) ==
    {i \in 1..Len(paras) : is_heading(paras[i]) /\ ~has_bullet_from(paras, i + 1)}

RECURSIVE RemoveIdxs(_, _, _)
RemoveIdxs(paras, idxs, i) ==
    IF i > Len(paras) THEN <<>>
    ELSE (IF i \in idxs THEN <<>> ELSE <<paras[i]>>) \o RemoveIdxs(paras, idxs, i + 1)

\* r.bold = True for every run with non-blank text
BoldNonEmptyRuns(p) ==
    [p EXCEPT !.runs = [i \in 1..Len(p.runs) |->
        IF strip(p.runs[i].text) # <<>>
        THEN [p.runs[i] EXCEPT !.bold = TRUE] ELSE p.runs[i]]]

\* The loop with a heading block that nothing ends.
RECURSIVE RestyleLoop_sticky(_, _)
RestyleLoop_sticky(paras, in_heading_block) ==
    IF paras = <<>> THEN <<>>
    ELSE LET p == Head(paras)
         IN  IF is_heading(p)
             THEN <<BoldNonEmptyRuns(
                        apply_level_indent([p EXCEPT !.style = "List Bullet"], 0))>>
                      \o RestyleLoop_sticky(Tail(paras), TRUE)
             ELSE IF in_heading_block /\ is_bullet(p)
             THEN <<apply_level_indent([p EXCEPT !.style = "List Bullet"],
                        Min(bullet_level_from_style_name(p.style) + 1, 2))>>
                      \o RestyleLoop_sticky(Tail(paras), TRUE)
             ELSE IF is_bullet(p)
             THEN <<apply_level_indent([p EXCEPT !.style = "List Bullet"],
                        bullet_level_from_style_name(p.style))>>
                      \o RestyleLoop_sticky(Tail(paras), in_heading_block)
             ELSE <<p>> \o RestyleLoop_sticky(Tail(paras), in_heading_block)

\* Steps (2)(3): the loop over the remaining paragraphs.
RECURSIVE RestyleLoop(_, _)
RestyleLoop(paras, in_heading_block) ==
    IF paras = <<>> THEN <<>>
    ELSE LET p == Head(paras)
             blk == IF strip(ptext(p)) = <<>> THEN FALSE
                    ELSE IF ~is_bullet(p) THEN FALSE ELSE in_heading_block
         IN  IF is_heading(p)
             THEN <<BoldNonEmptyRuns(
                        apply_level_indent([p EXCEPT !.style = "List Bullet"], 0))>>
                      \o RestyleLoop(Tail(paras), TRUE)
             ELSE IF in_heading_block /\ is_bullet(p)
             THEN <<apply_level_indent([p EXCEPT !.style = "List Bullet"],
                        Min(bullet_level_from_style_name(p.style) + 1, 2))>>
                      \o RestyleLoop(Tail(paras), TRUE)
             ELSE IF is_bullet(p)
             THEN <<apply_level_indent([p EXCEPT !.style = "List Bullet"],
                        bullet_level_from_style_name(p.style))>>
                      \o RestyleLoop(Tail(paras), blk)
             ELSE <<p>> \o RestyleLoop(Tail(paras), blk)

postprocess_formatting(paras) ==
    RestyleLoop(RemoveIdxs(paras, to_delete_idxs(paras), 1), FALSE)

-----------------------------------------------------------------------------
(* word_reindent.py: the remapper.  An output paragraph is                 *)
(*   [id, style, num, runs, left, first]                                   *)
(* id: the identity of the source paragraph it was generated from;         *)
(* num: <<>> for no w:numPr, else <<[numId, ilvl]>>.                       *)

TEMPLATE_NUM_ID == 1

TEMPLATE_LIST_STYLE == "List Paragraph"

\* Length.pt < 0 and Length.pt > 0 read on the EMU value.
is_list_like(src_p) ==
    IF StyleStartsWithList(src_p.style) THEN TRUE
    ELSE /\ src_p.first # <<>> /\ src_p.first[1] < 0
         /\ src_p.left # <<>> /\ src_p.left[1] > 0

\* Python's round() of the fraction num / den (den > 0): to the nearest
\* integer, a tie going to the even one.
RoundHalfEven(num, den) ==
    LET q == num \div den
        r == num - q * den
    IN  IF 2 * r < den THEN q
        ELSE IF 2 * r > den THEN q + 1
        ELSE IF q % 2 = 0 THEN q ELSE q + 1

\* round((left - 18.0) / 18.0) with left = emu / 12700
LevelOfLeft(emu) == RoundHalfEven(emu - Pt(18), Pt(18))

infer_level_from_indent(src_p) ==
    IF src_p.left = <<>> THEN 0
    ELSE Max(0, Min(LevelOfLeft(src_p.left[1]), 2))

\* set_paragraph_numbering: any existing w:numPr is replaced.
set_paragraph_numbering(p, num_id, ilvl) ==
    [p EXCEPT !.num = <<[numId |-> num_id, ilvl |-> Max(0, Min(ilvl, 8))]>>]

clear_direct_paragraph_formatting(p) ==
    [p EXCEPT !.left = <<>>, !.first = <<>>]

RECURSIVE CopiedRuns(_)
CopiedRuns(runs) ==
    IF runs = <<>> THEN <<>>
    ELSE (IF Head(runs).text = <<>> THEN <<>>
          ELSE <<[text |-> Head(runs).text, bold |-> FALSE]>>)
             \o CopiedRuns(Tail(runs))

\* copy_runs_force_not_bold.  A paragraph without runs has an empty text, so
\* the branch for "no runs but some text" adds nothing.
copy_runs_force_not_bold(src_p, dst_p) ==
    [dst_p EXCEPT !.runs = dst_p.runs \o CopiedRuns(src_p.runs)]

\* out.add_paragraph(""): a paragraph of the default style, no run.
NewOutPara(id) ==
    [id |-> id, style |-> "Normal", num |-> <<>>, runs |-> <<>>,
     left |-> <<>>, first |-> <<>>]

\* The branch of apply_template_bullets for a list-like source paragraph.
ListOutPara_numbered_if_styled(sp, styles) ==
    LET lvl == infer_level_from_indent(sp)
        dp0 == NewOutPara(sp.id)
    IN  IF TEMPLATE_LIST_STYLE \in styles
        THEN copy_runs_force_not_bold(sp, clear_direct_paragraph_formatting(
                 set_paragraph_numbering([dp0 EXCEPT !.style = TEMPLATE_LIST_STYLE],
                                         TEMPLATE_NUM_ID, lvl)))
        ELSE copy_runs_force_not_bold(sp, clear_direct_paragraph_formatting(dp0))

ListOutPara(sp, styles) ==
    LET lvl == infer_level_from_indent(sp)
        dp0 == NewOutPara(sp.id)
        dp1 == IF TEMPLATE_LIST_STYLE \in styles
               THEN [dp0 EXCEPT !.style = TEMPLATE_LIST_STYLE] ELSE dp0
    IN  copy_runs_force_not_bold(sp, clear_direct_paragraph_formatting(
            set_paragraph_numbering(dp1, TEMPLATE_NUM_ID, lvl)))

\* The branch for any other source paragraph.
PlainOutPara(sp) ==
    copy_runs_force_not_bold(sp, clear_direct_paragraph_formatting(NewOutPara(sp.id)))

\* The loop of apply_template_bullets over src.paragraphs; the final pass
\* that sets bold off again changes nothing the model holds.
RECURSIVE RemapLoop(_, _)
RemapLoop(paras, styles) ==
    IF paras = <<>> THEN <<>>
    ELSE LET sp == Head(paras)
         IN  (IF strip(ptext(sp)) = <<>> THEN <<>>
              ELSE IF is_list_like(sp) THEN <<ListOutPara(sp, styles)>>
              ELSE <<PlainOutPara(sp)>>)
                 \o RemapLoop(Tail(paras), styles)

\* The output document: the template's styles and numbering definitions,
\* its body cleared and refilled.
apply_template_bullets(source, tpl) ==
    [styles |-> tpl.styles, nums |-> tpl.nums, body |-> RemapLoop(source, tpl.styles)]

-----------------------------------------------------------------------------
(* convert: one page.  A page is a sequence of layout lines [text, x]: the *)
(* text of the line and the left edge of its only span.  The lines lie one *)
(* below the other (y grows with the index), page.get_text("text") yields  *)
(* their texts in that order and page.get_text("dict") the same lines.     *)

\* The texts of the page, as raw.splitlines() of page.get_text("text").
PageTexts(pg) == [i \in 1..Len(pg) |-> pg[i].text]

\* The (y0, x0, bullet_x) hits of _extract_bullet_x_positions, in the order
\* of the walk over the lines.
RECURSIVE Hits(_, _)
Hits(pg, i) ==
    IF i > Len(pg) THEN <<>>
    ELSE (IF _is_bullet_start_text(pg[i].text)
          THEN <<[y0 |-> i, x0 |-> pg[i].x, bullet_x |-> pg[i].x]>>
          ELSE <<>>) \o Hits(pg, i + 1)

HitLeq(a, b) == a.y0 < b.y0 \/ (a.y0 = b.y0 /\ a.x0 <= b.x0)

\* hits.sort(key=lambda t: (t[0], t[1]))
RECURSIVE InsertHit(_, _)
InsertHit(h, s) ==
    IF s = <<>> THEN <<h>>
    ELSE IF HitLeq(Head(s), h) THEN <<Head(s)>> \o InsertHit(h, Tail(s))
    ELSE <<h>> \o s

RECURSIVE SortHits(_)
SortHits(hs) ==
    IF hs = <<>> THEN <<>>
    ELSE InsertHit(hs[Len(hs)], SortHits(SubSeq(hs, 1, Len(hs) - 1)))

_extract_bullet_x_positions(pg) ==
    LET hs == SortHits(Hits(pg, 1))
    IN  [k \in 1..Len(hs) |-> hs[k].bullet_x]

\* A line the title loop accepts.
IsTitleLine(ln) ==
    /\ bullet_text(ln) = <<>>
    /\ looks_like_heading(ln) \/ Len(ln) <= 60

\* The title loop of convert: the first accepted line, <<>> for None.
RECURSIVE select_title(_)
select_title(lns) ==
    IF lns = <<>> THEN <<>>
    ELSE IF IsTitleLine(Head(lns)) THEN Head(lns)
    ELSE select_title(Tail(lns))

Outline == <<"o","u","t","l","i","n","e">>

Summary == <<"s","u","m","m","a","r","y">>

\* The text the skip test compares with "outline" and "summary".
SkipKey_caseful(t) == strip(t)

SkipKey(t) == lower(strip(t))

\* title and title.strip().lower() in {"outline", "summary"}
is_skipped_title(t) == t # <<>> /\ SkipKey(t) \in {Outline, Summary}

\* flush_bullet.  The assembler state is [cur, cur_ln, lvl, idx, out]:
\* current_bullet (<<>> for None), the index of the line that opened it,
\* current_level, bullet_level_idx and the nodes emitted so far.  A node is
\* [kind, text, level, ln]; ln is the index of the line it came from.
flush_bullet(st) ==
    IF st.cur # <<>>
    THEN [st EXCEPT
            !.out = Append(st.out, [kind |-> "bullet", text |-> strip(st.cur),
                                    level |-> Max(0, Min(st.lvl, 2)),
                                    ln |-> st.cur_ln]),
            !.cur = <<>>, !.lvl = 0]
    ELSE st

\* One iteration of the line loop of convert on line i.
AssembleLine(lns, i, t, levels, flag, st) ==
    LET ln == lns[i]
        bt == bullet_text(ln)
        is_head == looks_like_heading(ln)
        fl == flush_bullet(st)
    IN  IF t # <<>> /\ ln = t THEN st
        ELSE IF bt # <<>>
        THEN IF fl.idx < Len(levels)
             THEN [fl EXCEPT !.lvl = levels[fl.idx + 1], !.idx = fl.idx + 1,
                             !.cur = bt, !.cur_ln = i]
             ELSE [fl EXCEPT !.lvl = 0, !.cur = bt, !.cur_ln = i]
        ELSE IF is_head
        THEN [fl EXCEPT !.out = Append(fl.out,
                 [kind |-> "heading", text |-> ln, level |-> 0, ln |-> i])]
        ELSE IF flag
        THEN [fl EXCEPT !.lvl = 0, !.cur = ln, !.cur_ln = i]
        ELSE IF st.cur # <<>>
        THEN [st EXCEPT !.cur = st.cur \o <<" ">> \o ln]
        ELSE st

RECURSIVE AssembleLoop(_, _, _, _, _, _)
AssembleLoop(lns, i, t, levels, flag, st) ==
    IF i > Len(lns) THEN st
    ELSE AssembleLoop(lns, i + 1, t, levels, flag,
                      AssembleLine(lns, i, t, levels, flag, st))

\* The line loop and the final flush_bullet: the assembler state at the end
\* of the page.
Assemble(lns, t, levels, flag) ==
    flush_bullet(AssembleLoop(lns, 1, t, levels, flag,
        [cur |-> <<>>, cur_ln |-> 0, lvl |-> 0, idx |-> 0, out |-> <<>>]))

\* The index of the line the title loop stopped at (0 when there is none).
TitleIdx(lns) ==
    IF \E i \in 1..Len(lns) : IsTitleLine(lns[i])
    THEN CHOOSE i \in 1..Len(lns) :
             IsTitleLine(lns[i]) /\ \A j \in 1..(i - 1) : ~IsTitleLine(lns[j])
    ELSE 0

\* Everything a page that is not skipped adds to the document: the title,
\* the assembled nodes and the blank separator.
PageNodes(lns, t, levels, flag) ==
    (IF t # <<>>
     THEN <<[kind |-> "title", text |-> t, level |-> 0, ln |-> TitleIdx(lns)]>>
     ELSE <<>>)
        \o Assemble(lns, t, levels, flag).out
        \o <<[kind |-> "blank", text |-> <<>>, level |-> 0, ln |-> 0]>>

\* add_bold_line, add_bullet and doc.add_paragraph("") for the nodes.
NodePara(nd, id) ==
    IF nd.kind = "bullet" THEN BulletPara(id, nd.text, nd.level)
    ELSE IF nd.kind = "blank" THEN BlankPara(id)
    ELSE BoldLine(id, nd.text)

Render(d, nds) ==
    d \o [k \in 1..Len(nds) |-> NodePara(nds[k], Len(d) + k)]

-----------------------------------------------------------------------------
(* Values the variables of a specification that does not use them keep.    *)

LevelsIdle ==
    /\ lv_pc = "idle"
    /\ bullet_xs = <<>>
    /\ centers = <<>>
    /\ bullet_levels = <<>>

FormatIdle ==
    /\ src_doc = <<>>
    /\ prev_doc = <<>>
    /\ doc = <<>>
    /\ post_runs = 0
    /\ template = [styles |-> {}, nums |-> {}]
    /\ out = <<>>

RunIdle ==
    /\ entry = "none"
    /\ run_pc = "idle"
    /\ inter_file = <<>>
    /\ delivered = <<>>

ConvertIdle ==
    /\ cv_pc = "idle"
    /\ force_all_lines_bullets = FALSE
    /\ lines_left = 0
    /\ page_index = 0
    /\ page = <<>>
    /\ lines = <<>>
    /\ title = <<>>
    /\ nodes = <<>>

-----------------------------------------------------------------------------
(* Specification SpecLevels: level inference applied to every offset list  *)
(* of at most MaxBullets glyphs.                                           *)

InitLevels ==
    /\ lv_pc = "input"
    /\ bullet_xs \in SeqsUpTo(Offsets, MaxBullets)
    /\ centers = <<>>
    /\ bullet_levels = <<>>
    /\ FormatIdle
    /\ ConvertIdle
    /\ RunIdle

\* bullet_levels = _levels_for_bullets_on_page(bullet_xs)  (convert, l.389)
InferLevels ==
    /\ lv_pc = "input"
    /\ lv_pc' = "done"
    /\ centers' = _cluster_x_positions(bullet_xs, tol)
    /\ bullet_levels' = _levels_for_bullets_on_page(bullet_xs)
    /\ UNCHANGED <<bullet_xs, formatVars, convertVars, runVars>>

NextLevels == InferLevels

SpecLevels == InitLevels /\ [][NextLevels]_vars

-----------------------------------------------------------------------------
(* Specification SpecFormat: the two formatting passes on a document.      *)
(* The document is any sequence of at most MaxParas paragraphs of these    *)
(* kinds: what the renderer writes (a bold line, a bullet of level 0..2, a *)
(* blank paragraph) and, since both passes accept any document, a plain    *)
(* paragraph and a plain paragraph with a hanging indent.                  *)

ParaKinds == {"head", "b0", "b1", "b2", "blank", "plain", "hang"}

ParaOfKind(kind, id) ==
    CASE kind = "head" -> BoldLine(id, <<"H">>)
      [] kind = "b0" -> BulletPara(id, <<"b">>, 0)
      [] kind = "b1" -> BulletPara(id, <<"b">>, 1)
      [] kind = "b2" -> BulletPara(id, <<"b">>, 2)
      [] kind = "blank" -> BlankPara(id)
      [] kind = "plain" ->
            [id |-> id, style |-> "Normal",
             runs |-> <<[text |-> <<"p">>, bold |-> FALSE]>>,
             left |-> <<>>, first |-> <<>>]
      [] kind = "hang" ->
            [id |-> id, style |-> "Normal",
             runs |-> <<[text |-> <<"p">>, bold |-> FALSE]>>,
             left |-> <<Pt(45)>>, first |-> <<Pt(0 - 18)>>]

\* The templates: with and without the "List Paragraph" style; the
\* numbering definition the remapper refers to is part of the template
\* (app.py always passes the repository's Doc2.docx).
Templates ==
    {[styles |-> st, nums |-> {TEMPLATE_NUM_ID}] :
        st \in {{"Normal"}, {"Normal", TEMPLATE_LIST_STYLE}}}

InitFormat ==
    /\ LevelsIdle
    /\ ConvertIdle
    /\ RunIdle
    /\ \E ks \in SeqsUpTo(ParaKinds, MaxParas) :
           src_doc = [i \in 1..Len(ks) |-> ParaOfKind(ks[i], i)]
    /\ prev_doc = src_doc
    /\ doc = src_doc
    /\ post_runs = 0
    /\ template \in Templates
    /\ out = <<>>

\* postprocess_formatting(docx_path): load, rewrite, save in place.
Postprocess ==
    /\ post_runs < MaxRuns
    /\ out = <<>>
    /\ prev_doc' = doc
    /\ doc' = postprocess_formatting(doc)
    /\ post_runs' = post_runs + 1
    /\ UNCHANGED <<src_doc, template, out, levelVars, convertVars, runVars>>

\* apply_template_bullets(source_docx, template_docx, out_docx)
Remap ==
    /\ out = <<>>
    /\ out' = <<apply_template_bullets(doc, template)>>
    /\ UNCHANGED <<src_doc, prev_doc, doc, post_runs, template, levelVars,
                   convertVars, runVars>>

NextFormat == Postprocess \/ Remap

SpecFormat == InitFormat /\ [][NextFormat]_vars

-----------------------------------------------------------------------------
(* Specification SpecConvert: convert() on a PDF whose pages are made of   *)
(* the layout lines below, MaxLines lines in all.  The pages are chosen as *)
(* the loop reaches them; the document is saved and postprocessed when the *)
(* loop ends.                                                              *)

\* A line of 61 characters: too long for the title fallback.
LongText == [i \in 1..61 |-> IF i % 7 = 0 THEN " " ELSE "x"]

RawLines ==
    { [text |-> <<"K","e","y",":">>, x |-> 20],                \* a heading by its colon
      [text |-> <<"O","u","t","l","i","n","e">>, x |-> 20],    \* a skipped title
      [text |-> <<" ","S","U","M","M","A","R","Y">>, x |-> 20],\* a skipped title
      [text |-> <<"m","o","r","e">>, x |-> 20],                \* plain text
      [text |-> LongText, x |-> 20],                           \* long plain text
      [text |-> <<"-"," ","a">>, x |-> 50],                    \* a bullet
      [text |-> <<" ","*"," "," ","b">>, x |-> 90],            \* an indented bullet
      [text |-> <<"-","5">>, x |-> 90],                        \* a glyph without payload
      [text |-> <<"*"," ","@">>, x |-> 90] }                   \* a bullet that is footer noise

InitConvert ==
    /\ LevelsIdle
    /\ FormatIdle
    /\ RunIdle
    /\ cv_pc = "pages"
    /\ force_all_lines_bullets \in BOOLEAN
    /\ lines_left = MaxLines
    /\ page_index = 0
    /\ page = <<>>
    /\ lines = <<>>
    /\ title = <<>>
    /\ nodes = <<>>

\* One iteration of the page loop of convert, on the next page of the PDF.
ConvertPage ==
    /\ cv_pc = "pages"
    /\ \E n \in 1..lines_left :
         \E pg \in [1..n -> RawLines] :
           LET lns == normalize_lines(PageTexts(pg))
               xs == _extract_bullet_x_positions(pg)
               lv == _levels_for_bullets_on_page(xs)
               t == select_title(lns)
               nds == PageNodes(lns, t, lv, force_all_lines_bullets)
           IN  /\ page' = pg
               /\ page_index' = page_index + 1
               /\ lines_left' = lines_left - n
               /\ lines' = lns
               /\ IF lns = <<>>
                  THEN /\ bullet_xs' = <<>> /\ centers' = <<>> /\ bullet_levels' = <<>>
                       /\ title' = <<>> /\ nodes' = <<>> /\ doc' = doc
                  ELSE /\ bullet_xs' = xs
                       /\ centers' = _cluster_x_positions(xs, tol)
                       /\ bullet_levels' = lv
                       /\ title' = t
                       /\ IF is_skipped_title(t)
                          THEN nodes' = <<>> /\ doc' = doc
                          ELSE nodes' = nds /\ doc' = Render(doc, nds)
    /\ UNCHANGED <<cv_pc, force_all_lines_bullets, lv_pc,
                   src_doc, prev_doc, post_runs, template, out, runVars>>

\* The end of convert: doc.save(out_docx_path), postprocess_formatting.
SaveAndPostprocess ==
    /\ cv_pc = "pages"
    /\ cv_pc' = "done"
    /\ src_doc' = doc
    /\ prev_doc' = doc
    /\ doc' = postprocess_formatting(doc)
    /\ post_runs' = 1
    /\ UNCHANGED <<force_all_lines_bullets, lines_left, page_index, page, lines,
                   title, nodes, levelVars, template, out, runVars>>

NextConvert == ConvertPage \/ SaveAndPostprocess

SpecConvert == InitConvert /\ [][NextConvert]_vars

-----------------------------------------------------------------------------
(* Claims about level inference (checked under SpecLevels).                *)

Swap(s, i, j) == [s EXCEPT ![i] = s[j], ![j] = s[i]]

\* C7: clustering does not depend on the order of the offsets.  Exchanging
\* any two positions of the offset list (the exchanges generate every
\* permutation, and every list of the bounded input set is checked) leaves
\* the centroids returned by _cluster_x_positions unchanged, and every offset
\* value gets the level it got in the original order.
C7_OrderIndependent ==
    lv_pc = "done" =>
        \A i, j \in 1..Len(bullet_xs) :
            LET ys == Swap(bullet_xs, i, j)
                ls == _levels_for_bullets_on_page(ys)
            IN  /\ _cluster_x_positions(ys, tol) = centers
                /\ Len(ls) = Len(bullet_levels)
                /\ \A k, m \in 1..Len(ys) :
                       ys[k] = bullet_xs[m] => ls[k] = bullet_levels[m]

\* C7 witness: levels were computed for an offset list that is not in
\* ascending order and falls into at least two clusters.
C7_Witness ==
    /\ lv_pc = "done"
    /\ Len(centers) >= 2
    /\ \E i, j \in 1..Len(bullet_xs) : i < j /\ bullet_xs[i] > bullet_xs[j]

\* The 0-based rank, by ascending centroid, of the cluster that holds x.
ClusterRankOf(x, xs) ==
    LET clusters == ClustersOf(xs, tol)
        own == CHOOSE c \in 1..Len(clusters) :
                   \E m \in 1..Len(clusters[c]) : clusters[c][m] = x
        cs == _cluster_x_positions(xs, tol)
    IN  (CHOOSE r \in 1..Len(cs) : cs[r] = Center(clusters[own])) - 1

\* C10: each bullet's level is the rank (capped at 2) of the cluster that
\* contains its own offset; so two bullets of one cluster, and in particular
\* two bullets at most tol apart, have the same level; levels are in 0..2.
C10_LevelIsOwnCluster ==
    lv_pc = "done" =>
        /\ \A k \in 1..Len(bullet_xs) :
               /\ bullet_levels[k] \in 0..2
               /\ bullet_levels[k] = ClampLevel(ClusterRankOf(bullet_xs[k], bullet_xs))
        /\ \A k, m \in 1..Len(bullet_xs) :
               Abs(bullet_xs[k] - bullet_xs[m]) <= tol
                   => bullet_levels[k] = bullet_levels[m]

-----------------------------------------------------------------------------
(* Claims about the formatting passes (checked under SpecFormat).          *)

\* A paragraph as add_bold_line, add_bullet or add_paragraph("") writes it.
IsRenderedPara(p) ==
    /\ p.left = <<>> /\ p.first = <<>>
    /\ \/ p.style = "Normal" /\ p.runs = <<>>
       \/ /\ p.style = "Normal" /\ Len(p.runs) = 1
          /\ p.runs[1].bold /\ strip(p.runs[1].text) # <<>>
       \/ /\ p.style \in {"List Bullet", "List Bullet 2", "List Bullet 3"}
          /\ Len(p.runs) = 1 /\ ~p.runs[1].bold /\ p.runs[1].text # <<>>

\* A stream the renderer can write: every page appends bold lines and
\* bullets and then one blank paragraph.
RendererStream(s) ==
    /\ \A i \in 1..Len(s) : IsRenderedPara(s[i])
    /\ s = <<>> \/ s[Len(s)].runs = <<>>

\* C1: postprocess_formatting is idempotent on renderer output: the second
\* run on the output of the first deletes no paragraph and leaves every
\* paragraph's text, style, bold flags, left indent and first-line indent
\* as the first run left them.
C1_Idempotent ==
    (post_runs = 2 /\ RendererStream(src_doc)) => doc = prev_doc

\* The paragraph of document d with identity id is still there.
Survives(d, id) == \E k \in 1..Len(d) : d[k].id = id

\* C3: every paragraph the postprocessor gave a level L in 0..2 (left indent
\* 18 + 18 * L points, first-line indent -18 points) is list-like for the
\* remapper, and infer_level_from_indent gives back exactly L; when the
\* remapper has run on that document, the paragraph it generated from it is
\* numbered at level L.
C3_RoundTrip ==
    post_runs >= 1 =>
        \A k \in 1..Len(doc) :
            is_bullet(doc[k]) =>
                \E L \in 0..2 :
                    /\ doc[k].left = <<Pt(18 + 18 * L)>>
                    /\ doc[k].first = <<Pt(0 - 18)>>
                    /\ is_list_like(doc[k])
                    /\ infer_level_from_indent(doc[k]) = L
                    /\ out # <<>> =>
                           \E m \in 1..Len(out[1].body) :
                               /\ out[1].body[m].id = doc[k].id
                               /\ Len(out[1].body[m].num) = 1
                               /\ out[1].body[m].num[1].ilvl = L

\* C3 witness: the remapper has run on a postprocessed document that holds
\* paragraphs of all three levels.
C3_Witness ==
    /\ post_runs >= 1
    /\ out # <<>>
    /\ \A L \in 0..2 :
           \E k \in 1..Len(doc) :
               is_bullet(doc[k]) /\ doc[k].left = <<Pt(18 + 18 * L)>>

\* A bullet follows position i of s before the next heading or the end.
BulletBeforeNextHeading(s, i) ==
    \E j \in (i + 1)..Len(s) :
        /\ is_bullet(s[j])
        /\ \A k \in (i + 1)..(j - 1) : ~is_heading(s[k])

\* C4: after a run of the postprocessor a heading of its input is still in
\* the document iff a bullet follows it before the next heading or the end
\* of the stream (blank and plain paragraphs in between do not matter), and
\* every paragraph that is not a heading is still in the document.
C4_OrphanHeadings ==
    post_runs >= 1 =>
        \A i \in 1..Len(prev_doc) :
            IF is_heading(prev_doc[i])
            THEN Survives(doc, prev_doc[i].id) <=> BulletBeforeNextHeading(prev_doc, i)
            ELSE Survives(doc, prev_doc[i].id)

\* C4 witness: a run kept one heading whose first bullet comes only after a
\* paragraph that is neither bullet nor heading, and removed another heading.
C4_Witness ==
    /\ post_runs = 1
    /\ \E i \in 1..(Len(prev_doc) - 1) :
           /\ is_heading(prev_doc[i])
           /\ ~is_bullet(prev_doc[i + 1])
           /\ Survives(doc, prev_doc[i].id)
    /\ \E h \in 1..Len(prev_doc) :
           is_heading(prev_doc[h]) /\ ~Survives(doc, prev_doc[h].id)

\* The source paragraph an output paragraph was generated from.
SourceOf(dp) == doc[CHOOSE k \in 1..Len(doc) : doc[k].id = dp.id]

\* C9: an output paragraph generated from a list-like source paragraph
\* carries a numbering reference whether or not the template has the
\* 'List Paragraph' style; the reference names the fixed numbering id, a
\* definition of the template, at a level in 0..2; the remapper adds no
\* numbering definition; an output paragraph generated from any other
\* source paragraph carries no numbering reference.
C9_NumberingReference ==
    out # <<>> =>
        /\ out[1].nums = template.nums
        /\ \A k \in 1..Len(out[1].body) :
               LET dp == out[1].body[k]
               IN  IF is_list_like(SourceOf(dp))
                   THEN /\ Len(dp.num) = 1
                        /\ dp.num[1].numId = TEMPLATE_NUM_ID
                        /\ dp.num[1].numId \in out[1].nums
                        /\ dp.num[1].ilvl \in 0..2
                   ELSE dp.num = <<>>

\* C9 witness: a template without the 'List Paragraph' style, and an output
\* with a numbered paragraph of level 2 and a paragraph without numbering.
C9_Witness ==
    /\ out # <<>>
    /\ TEMPLATE_LIST_STYLE \notin template.styles
    /\ \E k \in 1..Len(out[1].body) :
           out[1].body[k].num # <<>> /\ out[1].body[k].num[1].ilvl = 2
    /\ \E k \in 1..Len(out[1].body) : out[1].body[k].num = <<>>

\* The paragraph of the postprocessed document with identity id.
OutOf(id) == doc[CHOOSE k \in 1..Len(doc) : doc[k].id = id]

\* Paragraph q is encoded as a bullet of level L: the canonical glyph style,
\* left indent 18 + 18 * L points, first-line indent -18 points.
EncodedAt(q, L) ==
    /\ q.style = "List Bullet"
    /\ q.left = <<Pt(18 + 18 * L)>>
    /\ q.first = <<Pt(0 - 18)>>

\* Position i of s lies in the run of bullets that immediately follows a
\* heading that survives in the postprocessed document: only bullets stand
\* between that heading and position i.
InHeadingRun(s, i) ==
    \E h \in 1..(i - 1) :
        /\ is_heading(s[h])
        /\ Survives(doc, s[h].id)
        /\ \A k \in (h + 1)..(i - 1) : is_bullet(s[k])

\* Every heading of s that survives is encoded as a level-0 bullet and has
\* the runs it had, all of its non-blank runs bold.
HeadingsPromoted(s) ==
    \A i \in 1..Len(s) :
        (is_heading(s[i]) /\ Survives(doc, s[i].id)) =>
            /\ EncodedAt(OutOf(s[i].id), 0)
            /\ OutOf(s[i].id).runs = s[i].runs
            /\ \A r \in 1..Len(s[i].runs) :
                   strip(s[i].runs[r].text) # <<>> => OutOf(s[i].id).runs[r].bold

\* C11 as stated: after the postprocessor has run on a document, a bullet's
\* encoded level is min(original level + 1, 2) if and only if the bullet
\* lies in the run of bullets immediately following a surviving heading;
\* every other bullet keeps its original level; every surviving heading is
\* a level-0 bullet with its bold runs kept.
C11_LevelShiftIff ==
    post_runs = 1 =>
        /\ \A i \in 1..Len(prev_doc) :
               is_bullet(prev_doc[i]) =>
                   LET L0 == bullet_level_from_style_name(prev_doc[i].style)
                       q == OutOf(prev_doc[i].id)
                   IN  /\ EncodedAt(q, Min(L0 + 1, 2)) <=> InHeadingRun(prev_doc, i)
                       /\ ~InHeadingRun(prev_doc, i) => EncodedAt(q, L0)
        /\ HeadingsPromoted(prev_doc)

\* C11 amended: after the postprocessor has run on a document, a bullet in
\* the run of bullets immediately following a surviving heading is encoded
\* at min(original level + 1, 2), every other bullet is encoded at exactly
\* its original level (so a bullet of original level 2 is encoded at level
\* 2 inside and outside such a run), and every surviving heading is a
\* level-0 bullet with its bold runs kept.
C11_LevelShift ==
    post_runs = 1 =>
        /\ \A i \in 1..Len(prev_doc) :
               is_bullet(prev_doc[i]) =>
                   LET L0 == bullet_level_from_style_name(prev_doc[i].style)
                       q == OutOf(prev_doc[i].id)
                   IN  IF InHeadingRun(prev_doc, i)
                       THEN EncodedAt(q, Min(L0 + 1, 2))
                       ELSE EncodedAt(q, L0)
        /\ HeadingsPromoted(prev_doc)

\* C11 witness: a run promoted a heading, shifted a bullet of its run from
\* level 0 to level 1, and kept a later bullet of original level 1, cut
\* off from the heading by a paragraph that is not a bullet, at level 1.
C11_Witness ==
    /\ post_runs = 1
    /\ \E i, j \in 1..Len(prev_doc) :
           /\ i < j
           /\ is_bullet(prev_doc[i]) /\ InHeadingRun(prev_doc, i)
           /\ prev_doc[i].style = "List Bullet"
           /\ EncodedAt(OutOf(prev_doc[i].id), 1)
           /\ is_bullet(prev_doc[j]) /\ ~InHeadingRun(prev_doc, j)
           /\ prev_doc[j].style = "List Bullet 2"
           /\ EncodedAt(OutOf(prev_doc[j].id), 1)

-----------------------------------------------------------------------------
(* Claims about convert (checked under SpecConvert).                       *)

\* The indices of the lines the assembler treats as BulletMarker.
Markers(lns) == {i \in 1..Len(lns) : bullet_text(lns[i]) # <<>>}

\* The indices of the layout lines that normalize_lines keeps, in order:
\* normalized line i is layout line KeptIdx(pg)[i].
RECURSIVE KeptIdx(_, _)
KeptIdx(pg, i) ==
    IF i > Len(pg) THEN <<>>
    ELSE (IF normalize_lines(<<pg[i].text>>) # <<>> THEN <<i>> ELSE <<>>)
             \o KeptIdx(pg, i + 1)

\* The level inferred from the glyph of normalized line i itself.
OwnLevel(pg, levels, i) ==
    LET hs == SortHits(Hits(pg, 1))
        h == CHOOSE k \in 1..Len(hs) : hs[k].y0 = KeptIdx(pg, 1)[i]
    IN  levels[h]

\* C2: on every page the inferred levels are exactly one per line the
\* assembler treats as BulletMarker, and every bullet the assembler opens
\* from a BulletMarker line has the level inferred from that line's glyph.
C2_OneLevelPerMarker ==
    (page_index > 0 /\ lines # <<>>) =>
        /\ Len(bullet_levels) = Cardinality(Markers(lines))
        /\ \A k \in 1..Len(nodes) :
               (nodes[k].kind = "bullet" /\ nodes[k].ln \in Markers(lines))
                   => nodes[k].level = OwnLevel(page, bullet_levels, nodes[k].ln)

\* C5: a page whose title, trimmed and lower-cased, is "outline" or
\* "summary" leaves the paragraph stream as it was before the page.
C5_SkippedPageAddsNothing ==
    [][(page_index' = page_index + 1
          /\ title' # <<>>
          /\ lower(strip(title')) \in {Outline, Summary})
        => doc' = doc]_vars

\* C5 witness: a later page with such a title and with other lines has been
\* processed when the document already held paragraphs.
C5_Witness ==
    /\ cv_pc = "pages"
    /\ page_index >= 2
    /\ title # <<>> /\ lower(strip(title)) \in {Outline, Summary}
    /\ Len(lines) >= 2
    /\ doc # <<>>

IsPlainLine(ln) == bullet_text(ln) = <<>> /\ ~looks_like_heading(ln)

HeadingNodes(nds) == SelectSeq(nds, LAMBDA nd : nd.kind = "heading")

\* The levels of the bullets opened from BulletMarker lines, in order.
MarkerLevels(lns, nds) ==
    LET ms == SelectSeq(nds, LAMBDA nd : nd.kind = "bullet" /\ nd.ln \in Markers(lns))
    IN  [k \in 1..Len(ms) |-> [ln |-> ms[k].ln, level |-> ms[k].level]]

\* C8: with the mode flag on, every Plain line other than the title line
\* yields exactly one level-0 bullet with that line's text and the level
\* cursor advances only on BulletMarker lines; the title, the headings, the
\* skip decision and the level of every BulletMarker line are the same with
\* the flag on and off.
C8_FlagOnlyChangesPlainLines ==
    (page_index > 0 /\ lines # <<>>) =>
        LET on == Assemble(lines, title, bullet_levels, TRUE)
            off == Assemble(lines, title, bullet_levels, FALSE)
        IN  /\ \A i \in 1..Len(lines) :
                   (IsPlainLine(lines[i]) /\ i # TitleIdx(lines)) =>
                       /\ Cardinality({k \in 1..Len(on.out) : on.out[k].ln = i}) = 1
                       /\ \A k \in 1..Len(on.out) :
                              on.out[k].ln = i =>
                                  /\ on.out[k].kind = "bullet"
                                  /\ on.out[k].level = 0
                                  /\ on.out[k].text = lines[i]
            /\ on.idx = off.idx
            /\ HeadingNodes(on.out) = HeadingNodes(off.out)
            /\ MarkerLevels(lines, on.out) = MarkerLevels(lines, off.out)

\* The BulletMarker lines of lns, in line order.
MarkerSeq(lns) ==
    SelectSeq([i \in 1..Len(lns) |-> i], LAMBDA i : bullet_text(lns[i]) # <<>>)

\* What the Plain lines from line j up to the next BulletMarker or Heading
\* line add to an open bullet: a space and the line's text each; ti is the
\* title line, which takes no part.
RECURSIVE Continuation(_, _, _)
Continuation(lns, j, ti) ==
    IF j > Len(lns) THEN <<>>
    ELSE IF j = ti THEN Continuation(lns, j + 1, ti)
    ELSE IF bullet_text(lns[j]) # <<>> \/ looks_like_heading(lns[j]) THEN <<>>
    ELSE <<" ">> \o lns[j] \o Continuation(lns, j + 1, ti)

\* The nodes of nds that are bullets.
BulletNodes(nds) == SelectSeq(nds, LAMBDA nd : nd.kind = "bullet")

\* C12: with the mode flag off, on a page that is not skipped, the Bullet
\* nodes are exactly one per BulletMarker line, in line order; the text of
\* each is the marker's payload followed by the texts of the Plain lines
\* between it and the next BulletMarker or Heading line, joined by single
\* spaces; bullets and headings are emitted in line order; no node comes
\* from a Plain line; the page's nodes end with the only blank separator.
C12_Accumulation ==
    (page_index > 0 /\ lines # <<>> /\ ~is_skipped_title(title)
        /\ ~force_all_lines_bullets) =>
        LET bs == BulletNodes(nodes)
            ms == MarkerSeq(lines)
            ti == TitleIdx(lines)
        IN  /\ Len(bs) = Len(ms)
            /\ \A k \in 1..Len(bs) :
                   k <= Len(ms) =>
                       /\ bs[k].ln = ms[k]
                       /\ bs[k].text =
                              bullet_text(lines[ms[k]])
                                  \o Continuation(lines, ms[k] + 1, ti)
            /\ \A a, b \in 1..Len(nodes) :
                   (a < b /\ nodes[a].kind \in {"bullet", "heading"}
                          /\ nodes[b].kind \in {"bullet", "heading"})
                       => nodes[a].ln < nodes[b].ln
            /\ \A k \in 1..Len(nodes) :
                   nodes[k].kind \in {"bullet", "heading"} =>
                       ~IsPlainLine(lines[nodes[k].ln])
            /\ nodes # <<>>
            /\ \A k \in 1..Len(nodes) : nodes[k].kind = "blank" <=> k = Len(nodes)

\* A text that no line of a page has.
NoLine == <<"<title>">>

\* The least index of a line that is not a BulletMarker and is a Heading or
\* at most 60 characters long (0 when there is none).
FirstTitleIdx(lns) ==
    LET ok == {i \in 1..Len(lns) :
                  /\ bullet_text(lns[i]) = <<>>
                  /\ looks_like_heading(lns[i]) \/ Len(lns[i]) <= 60}
    IN  IF ok = {} THEN 0 ELSE CHOOSE i \in ok : \A j \in ok : i <= j

\* The nodes the assembler emits for the lines of the page when the one
\* line at index ti, and no other, is kept from it.
NodesWithout(lns, ti, levels, flag) ==
    IF ti = 0 THEN Assemble(lns, <<>>, levels, flag).out
    ELSE Assemble([lns EXCEPT ![ti] = NoLine], NoLine, levels, flag).out

\* C13: on a page that is not skipped the title is the first line that is
\* not a BulletMarker and is a Heading or at most 60 characters long; it is
\* emitted exactly once, first; and the rest of the page's nodes are what
\* the assembler emits for all the other lines of the page, a later line
\* with the title's text included.
C13_TitleExclusion ==
    (page_index > 0 /\ lines # <<>> /\ ~is_skipped_title(title)) =>
        LET ti == FirstTitleIdx(lines)
        IN  /\ title = (IF ti = 0 THEN <<>> ELSE lines[ti])
            /\ Cardinality({k \in 1..Len(nodes) : nodes[k].kind = "title"})
                   = (IF ti = 0 THEN 0 ELSE 1)
            /\ ti # 0 => (nodes[1].kind = "title" /\ nodes[1].text = lines[ti]
                             /\ nodes[1].ln = ti)
            /\ SelectSeq(nodes, LAMBDA nd : nd.kind \in {"bullet", "heading"})
                   = NodesWithout(lines, ti, bullet_levels, force_all_lines_bullets)

-----------------------------------------------------------------------------
(* Specification SpecRun: one run of the end-to-end transform, entered     *)
(* through the app's run block (app.py), through convert's command line    *)
(* (convert_pdf_to_docx.main) or through the remapper's command line       *)
(* (word_reindent.main).  No stage catches an exception, so a stage that   *)
(* fails ends the run; the app's files live in a TemporaryDirectory that   *)
(* is removed when its block is left, the command lines write to the path  *)
(* the user gave.  A save is taken to write the whole file or nothing.     *)

Entries == {"app", "convert_cli", "reindent_cli"}

\* The documents the page loop can have built: at most MaxParas paragraphs
\* as the renderer writes them, each page ending in a blank paragraph.
RenderedDocs ==
    {d \in {[i \in 1..Len(ks) |-> ParaOfKind(ks[i], i)] :
                ks \in SeqsUpTo({"head", "b0", "b1", "b2", "blank"}, MaxParas)} :
        d = <<>> \/ d[Len(d)].runs = <<>>}

InitRun ==
    /\ LevelsIdle
    /\ ConvertIdle
    /\ entry \in Entries
    /\ run_pc = "start"
    /\ template \in Templates
    /\ doc = <<>>
    \* the remapper's command line is given an existing source document
    /\ inter_file \in IF entry = "reindent_cli"
                      THEN {<<d>> : d \in RenderedDocs} ELSE {<<>>}
    /\ src_doc = <<>>
    /\ prev_doc = <<>>
    /\ post_runs = 0
    /\ out = <<>>
    /\ delivered = <<>>

\* convert: fitz.open, Document(), the page loop.
RenderStage ==
    /\ run_pc = "start"
    /\ entry \in {"app", "convert_cli"}
    /\ doc' \in RenderedDocs
    /\ run_pc' = "rendered"
    /\ UNCHANGED <<entry, inter_file, delivered, src_doc, prev_doc, post_runs,
                   template, out, levelVars, convertVars>>

\* convert: doc.save(out_docx_path)
SaveStage ==
    /\ run_pc = "rendered"
    /\ inter_file' = <<doc>>
    /\ src_doc' = doc
    /\ run_pc' = "saved"
    /\ UNCHANGED <<entry, doc, delivered, prev_doc, post_runs, template, out,
                   levelVars, convertVars>>

\* convert: postprocess_formatting(out_docx_path), then convert returns;
\* on the command line the run is over.
PostprocessStage ==
    /\ run_pc = "saved"
    /\ prev_doc' = inter_file[1]
    /\ inter_file' = <<postprocess_formatting(inter_file[1])>>
    /\ post_runs' = post_runs + 1
    /\ run_pc' = IF entry = "convert_cli" THEN "done" ELSE "postprocessed"
    /\ UNCHANGED <<entry, doc, delivered, src_doc, template, out,
                   levelVars, convertVars>>

\* apply_template_bullets(intermediate_docx, TEMPLATE_PATH, final_docx); on
\* the command line the run is over.
RemapStage ==
    /\ \/ run_pc = "postprocessed" /\ entry = "app"
       \/ run_pc = "start" /\ entry = "reindent_cli"
    /\ out' = <<apply_template_bullets(inter_file[1], template)>>
    /\ run_pc' = IF entry = "app" THEN "remapped" ELSE "done"
    /\ UNCHANGED <<entry, doc, inter_file, delivered, src_doc, prev_doc,
                   post_runs, template, levelVars, convertVars>>

\* app.py: the download button gets the bytes of final.docx, then the
\* TemporaryDirectory block is left and its files are removed.
DeliverAndCleanup ==
    /\ run_pc = "remapped"
    /\ delivered' = out
    /\ inter_file' = <<>>
    /\ out' = <<>>
    /\ run_pc' = "done"
    /\ UNCHANGED <<entry, doc, src_doc, prev_doc, post_runs, template,
                   levelVars, convertVars>>

\* The stage that would run next raises instead (an unreadable input, a
\* missing template, a failed write).  The exception leaves the app's
\* TemporaryDirectory block, which removes its files; a command line just
\* exits and what is on disk stays.
StageFails ==
    /\ run_pc \in {"start", "rendered", "saved", "postprocessed"}
    /\ run_pc' = "failed"
    /\ IF entry = "app"
       THEN inter_file' = <<>> /\ out' = <<>>
       ELSE UNCHANGED <<inter_file, out>>
    /\ UNCHANGED <<entry, doc, delivered, src_doc, prev_doc, post_runs, template,
                   levelVars, convertVars>>

NextRun ==
    \/ RenderStage
    \/ SaveStage
    \/ PostprocessStage
    \/ RemapStage
    \/ DeliverAndCleanup
    \/ StageFails

SpecRun == InitRun /\ [][NextRun]_vars

\* The file at the path the run was asked to write: convert's command line
\* writes out_docx_path, the other two write the remapper's out_docx.
OutputFile == IF entry = "convert_cli" THEN inter_file ELSE out

\* C6: no partial output.  When a run has ended in a failed stage there is
\* no document at its output path, and when a run has ended with a document
\* at its output path every stage that works on that document has
\* completed.
C6_NoPartialOutput ==
    /\ run_pc = "failed" => OutputFile = <<>>
    /\ (run_pc \in {"done", "failed"} /\ OutputFile # <<>>) =>
           IF entry = "convert_cli" THEN post_runs = 1 ELSE run_pc = "done"

=============================================================================
